---- MODULE Spec2Model ----
(***************************************************************************)
(* A model of resync.py (push / pull / backup of documents between a local *)
(* file system and the xochitl directory of a reMarkable).                 *)
(*                                                                         *)
(* Conventions                                                             *)
(*  - an identifier is a string; Python's None is the string None;         *)
(*  - a name is a sequence of tokens, "a.pdf" is <<"a", ".", "pdf">>; a    *)
(*    path is the names joined by the token "/";                           *)
(*  - a Python dict is the sequence of its <<key, value>> pairs in         *)
(*    insertion order;                                                     *)
(*  - the tree of Node objects is an arena: a node is its index in         *)
(*    `nodes`, a parent reference of 0 is Python's None.                   *)
(***************************************************************************)
EXTENDS Integers, Sequences, FiniteSets, TLC

VARIABLES
    pc,                          \* position in the module-level code, lines 696-723
    run,                         \* number of the invocation of the program (1, 2)
    args,                        \* the parsed command line, lines 23-72
    xochitl,                     \* the device: [meta: <<uuid, metadata>>*, files, raw]
    web_enabled,                 \* whether the USB web interface answers
    ssh_connection,              \* "none" | "up" | "terminated", lines 696-723
    default_prepdir,             \* whether the mkdtemp() directory exists, line 19
    prepdir,                     \* content of args.prepdir: [meta, files]
    metadata_by_uuid,            \* lines 157-160
    metadata_by_name,
    metadata_by_parent,
    metadata_by_name_and_parent,
    nodes,                       \* the arena of Node objects
    root,                        \* push: the curbed roots; pull: the anchors
    gen,                         \* number of identifiers gen_did() has produced
    writes,                      \* history: which node's render wrote which file
    out,                         \* what was printed
    exc,                         \* "none", or the exception / exit that ended the run
    localfs,                     \* pull: the local destination directory
    snapshot,                    \* history: the listing retrieve_metadata read
    localfs0,                    \* history: the local directory when the run began
    pushed                       \* history: the trees built, before the exclusions

vars == <<pc, run, args, xochitl, web_enabled, ssh_connection, default_prepdir,
          prepdir, metadata_by_uuid, metadata_by_name, metadata_by_parent,
          metadata_by_name_and_parent, nodes, root, gen, writes, out, exc,
          localfs, snapshot, localfs0, pushed>>

(***************************************************************************)
(* Bounds of the model.                                                    *)
(***************************************************************************)
MaxDocs == 2                     \* longest list of documents on the command line

(***************************************************************************)
(* Values of the program.                                                  *)
(***************************************************************************)
None == "None"                   \* an id that is Python's None
RootParent == ""                 \* parent of a top-level record
Trash == "trash"                 \* parent of a trashed record
NoTuple == <<>>                  \* None where the code expects a tuple or dict

\* str.lower() on the tokens the model uses.
Lower(t) ==
    CASE t = "PDF" -> "pdf"
      [] t = "EPUB" -> "epub"
      [] t = "A" -> "a"
      [] t = "B" -> "b"
      [] t = "C" -> "c"
      [] OTHER -> t

LowerName(n) == [i \in 1..Len(n) |-> Lower(n[i])]

\* pathlib's PurePath.suffix of a final component: the last dot and what
\* follows it, when the dot is neither first nor last.
Suffix(n) ==
    IF Len(n) >= 3 /\ n[Len(n) - 1] = "." /\ n[Len(n)] # "."
    THEN <<".", n[Len(n)]>>
    ELSE <<>>

\* name.endswith('.pdf')
EndsWithPdf(n) == Len(n) >= 2 /\ n[Len(n) - 1] = "." /\ n[Len(n)] = "pdf"

\* line 356: suffix[1:] if the suffix starts with a dot, else the suffix
FileType(n) == IF Suffix(n) # <<>> THEN Suffix(n)[2] ELSE ""

\* line 511: path.suffix.lower() in ['.pdf', '.epub']
Supported(n) == LowerName(Suffix(n)) \in {<<".", "pdf">>, <<".", "epub">>}

\* lines 102-108: a uuid4 whose first eight characters are replaced by 'f';
\* the k-th call returns a value no earlier call and no device record has.
gen_did(k) == "ffffffff-" \o ToString(k)

\* a metadata blob that leaves the parent at its default
ConstructMetadataNoParent(filetype, name, parent_id) ==
    [visibleName |-> name,
     parent      |-> "",
     type        |-> IF filetype \in {"pdf", "epub"} THEN "DocumentType"
                     ELSE "CollectionType",
     deleted     |-> FALSE,
     lastOpened  |-> filetype \in {"pdf", "epub"}]

\* lines 111-136
construct_metadata(filetype, name, parent_id) ==
    [visibleName |-> name,
     parent      |-> parent_id,
     type        |-> IF filetype \in {"pdf", "epub"} THEN "DocumentType"
                     ELSE "CollectionType",
     deleted     |-> FALSE,
     lastOpened  |-> filetype \in {"pdf", "epub"}]

(***************************************************************************)
(* Python dicts as sequences of pairs.                                     *)
(***************************************************************************)
Keys(d) == {d[i][1] : i \in 1..Len(d)}
HasKey(d, k) == k \in Keys(d)
Get(d, k) == d[CHOOSE i \in 1..Len(d) : d[i][1] = k][2]
\* d[k] = v: replaces the value in place, or appends the pair
Put(d, k, v) ==
    IF HasKey(d, k)
    THEN [i \in 1..Len(d) |-> IF d[i][1] = k THEN <<k, v>> ELSE d[i]]
    ELSE Append(d, <<k, v>>)

(***************************************************************************)
(* retrieve_metadata, lines 162-189: the loop over zip(paths, stream),     *)
(* as a fold over the device's *.metadata files in the order ls gives.     *)
(***************************************************************************)
EmptyIndex ==
    [by_uuid |-> <<>>, by_name |-> <<>>, by_parent |-> <<>>,
     by_name_and_parent |-> <<>>, raised |-> "none"]

\* line 172
Invisible(md) == md.deleted \/ md.parent = Trash

\* one iteration of the loop, lines 171-188
\* the iteration without the collision check of lines 186-188
IndexStepNoCheck(ix, uuid, md) ==
    IF Invisible(md) THEN ix
    ELSE [ix EXCEPT
            !.by_uuid = Put(@, uuid, md),
            !.by_name = Put(@, md.visibleName,
                            Put(IF HasKey(@, md.visibleName)
                                THEN Get(@, md.visibleName) ELSE <<>>, uuid, md)),
            !.by_parent = Put(@, md.parent,
                              Put(IF HasKey(@, md.parent)
                                  THEN Get(@, md.parent) ELSE <<>>, uuid, md)),
            !.by_name_and_parent = Put(@, <<md.visibleName, md.parent>>, <<uuid, md>>)]

\* the iteration as the code has it
IndexStep(ix, uuid, md) ==
    IF Invisible(md) THEN ix
    ELSE LET ix1 == [ix EXCEPT
                !.by_uuid = Put(@, uuid, md),
                !.by_name = Put(@, md.visibleName,
                                Put(IF HasKey(@, md.visibleName)
                                    THEN Get(@, md.visibleName) ELSE <<>>, uuid, md)),
                !.by_parent = Put(@, md.parent,
                                  Put(IF HasKey(@, md.parent)
                                      THEN Get(@, md.parent) ELSE <<>>, uuid, md))]
         IN IF HasKey(ix.by_name_and_parent, <<md.visibleName, md.parent>>)
            THEN [ix1 EXCEPT !.raised = "FileCollision"]
            ELSE [ix1 EXCEPT !.by_name_and_parent =
                                 Put(@, <<md.visibleName, md.parent>>, <<uuid, md>>)]

\* stream_read_json, lines 140-154, over the concatenation of the device's
\* *.metadata files.  raw names the files that do not hold one JSON object:
\*   "empty"     adds nothing to the text, so nothing is yielded for it;
\*   "garbage"   json.load fails at the first character left in the stream,
\*               json_str is '' and the generator returns (line 150-151);
\*   "truncated" json.load fails inside the object, json.loads of the text
\*               before the error raises JSONDecodeError out of the handler.
\* [objs: the objects yielded, raised]
RECURSIVE stream_read_json(_, _, _, _)
stream_read_json(meta, raw, k, objs) ==
    IF k > Len(meta) THEN [objs |-> objs, raised |-> "none"]
    ELSE LET uuid == meta[k][1] IN
         IF ~HasKey(raw, uuid) THEN stream_read_json(meta, raw, k + 1, Append(objs, meta[k][2]))
         ELSE CASE Get(raw, uuid) = "empty"     -> stream_read_json(meta, raw, k + 1, objs)
                [] Get(raw, uuid) = "garbage"   -> [objs |-> objs, raised |-> "none"]
                [] Get(raw, uuid) = "truncated" -> [objs |-> objs, raised |-> "JSONDecodeError"]

\* zip(paths, stream_read_json(f)), line 170: the k-th path with the k-th
\* object, as long as both last
Zip(meta, objs) ==
    [k \in 1..(IF Len(meta) < Len(objs) THEN Len(meta) ELSE Len(objs)) |->
        <<meta[k][1], objs[k]>>]

RECURSIVE IndexLoop(_, _, _)
IndexLoop(ix, listing, k) ==
    IF k > Len(listing) \/ ix.raised # "none" THEN ix
    ELSE IndexLoop(IndexStep(ix, listing[k][1], listing[k][2]), listing, k + 1)

\* the index the loop builds on top of the dicts it finds
BuildIndex(ix0, listing) == IndexLoop(ix0, listing, 1)

\* retrieve_metadata on the dicts ix0 and the device dev: the pairs are
\* indexed as the generator yields them, so the generator's exception comes
\* after the loop indexed every pair before it
retrieve_metadata(ix0, dev) ==
    LET stream == stream_read_json(dev.meta, dev.raw, 1, <<>>)
        ix     == BuildIndex(ix0, Zip(dev.meta, stream.objs))
    IN IF ix.raised = "none" /\ stream.raised # "none"
       THEN [ix EXCEPT !.raised = stream.raised]
       ELSE ix

\* lines 192-229, on the module's dicts
get_metadata_by_uuid(u) ==
    IF HasKey(metadata_by_uuid, u) THEN Get(metadata_by_uuid, u) ELSE NoTuple

get_metadata_by_name(name) ==
    IF HasKey(metadata_by_name, name) THEN Get(metadata_by_name, name) ELSE NoTuple

get_metadata_by_parent(parent) ==
    IF HasKey(metadata_by_parent, parent) THEN Get(metadata_by_parent, parent) ELSE <<>>

get_metadata_by_name_and_parent(name, parent) ==
    IF HasKey(metadata_by_name_and_parent, <<name, parent>>)
    THEN Get(metadata_by_name_and_parent, <<name, parent>>)
    ELSE NoTuple

(***************************************************************************)
(* The document tree, lines 260-468.                                       *)
(***************************************************************************)
\* Node.__init__, lines 262-283, after the subclass set doctype and filetype
\* a lookup by name alone, whatever the parent
NodeInitAnyParent(ns, name, parent, kind, filetype, doc) ==
    LET hits == IF HasKey(metadata_by_name, name)
                THEN Get(metadata_by_name, name) ELSE <<>>
    IN [name |-> name, parent |-> parent, children |-> <<>>,
        gets_modified |-> FALSE,
        id |-> IF hits # <<>> THEN hits[1][1] ELSE None,
        exists |-> hits # <<>>,
        kind |-> kind, filetype |-> filetype, doc |-> doc,
        render |-> "method",
        matched_parent |-> IF parent = 0 THEN RootParent ELSE ns[parent].id]

\* the lookup by name and parent id, as the code has it
NodeInit(ns, name, parent, kind, filetype, doc) ==
    LET pid == IF parent = 0 THEN RootParent ELSE ns[parent].id
        metadata == get_metadata_by_name_and_parent(name, pid)
    IN [name |-> name, parent |-> parent, children |-> <<>>,
        gets_modified |-> FALSE,
        id |-> IF metadata # NoTuple THEN metadata[1] ELSE None,
        exists |-> metadata # NoTuple,
        kind |-> kind, filetype |-> filetype, doc |-> doc,
        render |-> "method",           \* which render the instance answers with
        matched_parent |-> pid]        \* history: the parent id the lookup used

\* Document.__init__, lines 352-358; the name is the path's last component
Document(ns, name, doc, parent) ==
    NodeInit(ns, name, parent, "Document", FileType(name), doc)

\* Folder.__init__, lines 414-417
Folder(ns, name, parent) ==
    NodeInit(ns, name, parent, "Folder", "folder", "")

\* Node.add_child, lines 289-296, on the state s = [nodes, gen, err, ...]
add_child(s, p, c) ==
    IF s.nodes[c].parent = 0
    THEN [s EXCEPT !.err = "ShouldNeverHappenError"]
    ELSE [s EXCEPT !.nodes[p].children = Append(@, c)]

\* Node.get_full_path, lines 299-303
RECURSIVE get_full_path(_, _)
get_full_path(ns, i) ==
    IF ns[i].parent = 0 THEN ns[i].name
    ELSE get_full_path(ns, ns[i].parent) \o <<"/">> \o ns[i].name

(***************************************************************************)
(* re.match(exc, path), line 239, for the patterns the model uses: a       *)
(* sequence of literal tokens, "." for any one character, "\\." for a dot, *)
(* and a final "$".  A match needs the pattern to match a prefix of the    *)
(* path.                                                                   *)
(***************************************************************************)
OneChar == {"A", "B", "C", "a", "b", "c", "n", "x", "y", ".", "/"}

TokMatch(pt, t) ==
    CASE pt = "."   -> t \in OneChar
      [] pt = "\\." -> t = "."
      [] OTHER      -> pt = t

RECURSIVE ReMatch(_, _)
ReMatch(p, s) ==
    IF p = <<>> THEN TRUE
    ELSE IF p = <<"$">> THEN s = <<>>
    ELSE s # <<>> /\ TokMatch(Head(p), Head(s)) /\ ReMatch(Tail(p), Tail(s))

\* lines 238-241: some pattern of the list matches the node's full path
Excluded(ns, i, excludelist) ==
    \E k \in 1..Len(excludelist) : ReMatch(excludelist[k], get_full_path(ns, i))

\* curb_tree, lines 232-250: [nodes, curbed]
RECURSIVE curb_tree(_, _, _)
RECURSIVE CurbChildren(_, _, _, _, _)
CurbChildren(ns, chs, k, excludelist, uncurbed) ==
    IF k > Len(chs) THEN [nodes |-> ns, uncurbed |-> uncurbed]
    ELSE LET r == curb_tree(ns, chs[k], excludelist)
         IN CurbChildren(r.nodes, chs, k + 1, excludelist,
                         IF r.curbed THEN uncurbed ELSE Append(uncurbed, chs[k]))

\* a curb that removes a matching node only when it has no children
CurbTreeIfEmpty(ns, i, excludelist) ==
    IF Excluded(ns, i, excludelist) THEN [nodes |-> ns, curbed |-> TRUE]
    ELSE LET r == CurbChildren(ns, ns[i].children, 1, excludelist, <<>>)
         IN [nodes  |-> [r.nodes EXCEPT ![i].children = r.uncurbed],
             curbed |-> ns[i].children # <<>> /\ r.uncurbed = <<>>]

curb_tree(ns, i, excludelist) ==
    IF Excluded(ns, i, excludelist) THEN [nodes |-> ns, curbed |-> TRUE]
    ELSE LET r == CurbChildren(ns, ns[i].children, 1, excludelist, <<>>)
         IN [nodes  |-> [r.nodes EXCEPT ![i].children = r.uncurbed],
             curbed |-> FALSE]

\* lines 580-585 and 689-692: the roots that survive, curbed in place
RECURSIVE CurbRoots(_, _, _, _, _)
CurbRoots(ns, roots, k, excludelist, kept) ==
    IF k > Len(roots) THEN [nodes |-> ns, roots |-> kept]
    ELSE LET r == curb_tree(ns, roots[k], excludelist)
         IN CurbRoots(r.nodes, roots, k + 1, excludelist,
                      IF r.curbed THEN kept ELSE Append(kept, roots[k]))

(***************************************************************************)
(* push_to_remarkable, lines 489-651.  The state the recursions thread is  *)
(* s = [nodes, gen, err, prep, writes]: the arena, the number of gen_did() *)
(* calls, the exception raised ("none" if none), the staging directory     *)
(* [meta: id -> metadata blob, files: <<id, extension>> -> content] and    *)
(* the history of which node wrote which staged file.                      *)
(***************************************************************************)
EmptyDir == [meta |-> <<>>, files |-> <<>>]

\* lines 513-538: the policy applied to a Document the index matched
\* a duplicate policy that keeps the matched id
ResolveKeepId(n, if_exists, k) ==
    CASE if_exists = "skip"      -> n
      [] if_exists = "overwrite" -> [n EXCEPT !.exists = FALSE, !.gets_modified = TRUE]
      [] if_exists = "doconly"   -> [n EXCEPT !.exists = FALSE, !.gets_modified = TRUE,
                                              !.render = "lambda"]
      [] if_exists = "duplicate" -> [n EXCEPT !.exists = FALSE]

\* the policies as the code has them
ResolveExisting(n, if_exists, k) ==
    CASE if_exists = "skip"      -> n
      [] if_exists = "overwrite" -> [n EXCEPT !.exists = FALSE, !.gets_modified = TRUE]
      [] if_exists = "doconly"   -> [n EXCEPT !.exists = FALSE, !.gets_modified = TRUE,
                                              !.render = "lambda"]
      [] if_exists = "duplicate" -> [n EXCEPT !.id = gen_did(k), !.exists = FALSE]

\* construct_node_tree_from_disk, lines 497-543, of a local entry
\* [name, isdir, src, entries]: [s, node], node = 0 for None
RECURSIVE construct_node_tree_from_disk(_, _, _, _)
RECURSIVE ConstructEntries(_, _, _, _, _)
ConstructEntries(s, entries, k, parent, if_exists) ==
    IF k > Len(entries) THEN s
    ELSE LET r == construct_node_tree_from_disk(s, entries[k], parent, if_exists)
         IN ConstructEntries(IF r.node # 0 THEN add_child(r.s, parent, r.node) ELSE r.s,
                             entries, k + 1, parent, if_exists)

construct_node_tree_from_disk(s, entry, parent, if_exists) ==
    LET idx == Len(s.nodes) + 1 IN
    IF entry.isdir
    THEN LET node == Folder(s.nodes, entry.name, parent)
             s1 == [s EXCEPT !.nodes = Append(@, node)]
         IN [s |-> ConstructEntries(s1, entry.entries, 1, idx, if_exists), node |-> idx]
    ELSE IF Supported(entry.name)
    THEN LET node == Document(s.nodes, entry.name, entry.src, parent)
             fresh == node.exists /\ if_exists = "duplicate"
             node1 == IF node.exists THEN ResolveExisting(node, if_exists, s.gen + 1)
                      ELSE node
         IN [s |-> [s EXCEPT !.nodes = Append(@, node1),
                             !.gen = IF fresh THEN @ + 1 ELSE @],
             node |-> idx]
    ELSE [s |-> s, node |-> 0]

\* lines 552-559: the chain of Folder nodes of the destination; [s, anchor]
RECURSIVE DestinationChain(_, _, _, _)
DestinationChain(s, folders, k, anchor) ==
    IF k > Len(folders) THEN [s |-> s, anchor |-> anchor]
    ELSE LET idx == Len(s.nodes) + 1
             s1 == [s EXCEPT !.nodes = Append(@, Folder(s.nodes, folders[k], anchor))]
         IN DestinationChain(IF anchor = 0 THEN s1 ELSE add_child(s1, anchor, idx),
                             folders, k + 1, idx)

\* lines 562-577: the documents, as roots or under the anchor; [s, roots]
RECURSIVE ConstructDocuments(_, _, _, _, _, _)
ConstructDocuments(s, documents, k, anchor, if_exists, roots) ==
    IF k > Len(documents) THEN [s |-> s, roots |-> roots]
    ELSE LET r == construct_node_tree_from_disk(s, documents[k], anchor, if_exists)
         IN ConstructDocuments(
                IF r.node # 0 /\ anchor # 0 THEN add_child(r.s, anchor, r.node) ELSE r.s,
                documents, k + 1, anchor, if_exists,
                IF r.node # 0 /\ anchor = 0 THEN Append(roots, r.node) ELSE roots)

\* lines 546-577: the tree of a push before the exclusions: [s, roots]
ConstructPushTree(s, a) ==
    LET d == DestinationChain(s, a.destination, 1, 0)
        c == ConstructDocuments(d.s, a.documents, 1, d.anchor, a.if_exists, <<>>)
    IN [s |-> c.s, roots |-> IF d.anchor = 0 THEN c.roots ELSE <<1>>]

\* open(path, 'w') and shutil.copy into the staging directory by node i
WriteMeta(s, i, id, md) ==
    [s EXCEPT !.prep.meta = Put(@, id, md),
              !.writes = @ \cup {[node |-> i, file |-> <<id, "metadata">>]}]

WriteFile(s, i, id, ext, content) ==
    [s EXCEPT !.prep.files = Put(@, <<id, ext>>, content),
              !.writes = @ \cup {[node |-> i, file |-> <<id, ext>>]}]

\* os.makedirs(path) without exist_ok, lines 369-370
MakeDirs(s, i, id, ext) ==
    IF HasKey(s.prep.files, <<id, ext>>)
    THEN [s EXCEPT !.err = "FileExistsError"]
    ELSE WriteFile(s, i, id, ext, "dir")

\* Node.render_common, lines 306-324
render_common(s, i) ==
    LET n    == s.nodes[i]
        s1   == IF n.id = None
                THEN [s EXCEPT !.nodes[i].id = gen_did(s.gen + 1), !.gen = @ + 1]
                ELSE s
        id   == s1.nodes[i].id
        meta == IF n.parent # 0
                THEN construct_metadata(n.filetype, n.name, s1.nodes[n.parent].id)
                ELSE construct_metadata(n.filetype, n.name, RootParent)
    IN WriteFile(WriteMeta(s1, i, id, meta), i, id, "content", "{}")

\* Document.render, lines 361-371, once `not self.exists` holds
DocumentRenderNew(s, i) ==
    LET s1 == render_common(s, i)
        id == s1.nodes[i].id
        s2 == MakeDirs(s1, i, id, "")
        s3 == IF s2.err # "none" THEN s2 ELSE MakeDirs(s2, i, id, "thumbnails")
    IN IF s3.err # "none" THEN s3
       ELSE WriteFile(s3, i, id, s.nodes[i].filetype, s.nodes[i].doc)

\* whether render writes for the node: `if not self.exists`, lines 365 and 424
\* a render that writes whether or not the node exists
RendersAlways(n) == TRUE
Renders(n) == ~n.exists

\* node.render(prepdir): Document.render (361-371), Folder.render (420-428),
\* or the lambda line 530 stored in the instance, which Python calls without
\* the instance and so with one argument too few
RECURSIVE render(_, _)
RECURSIVE RenderAll(_, _, _)
RenderAll(s, chs, k) ==
    IF k > Len(chs) \/ s.err # "none" THEN s
    ELSE RenderAll(render(s, chs[k]), chs, k + 1)

\* a Folder.render that renders the children before the folder itself
RenderChildrenFirst(s, i) ==
    LET n == s.nodes[i] IN
    IF n.render = "lambda" THEN [s EXCEPT !.err = "TypeError"]
    ELSE IF n.kind = "Document"
    THEN IF Renders(n) THEN DocumentRenderNew(s, i) ELSE s
    ELSE LET s1 == RenderAll(s, n.children, 1)
         IN IF s1.err = "none" /\ Renders(n) THEN render_common(s1, i) ELSE s1

\* the render methods as the code has them
render(s, i) ==
    LET n == s.nodes[i] IN
    IF n.render = "lambda" THEN [s EXCEPT !.err = "TypeError"]
    ELSE IF n.kind = "Document"
    THEN IF Renders(n) THEN DocumentRenderNew(s, i) ELSE s
    ELSE LET s1 == IF Renders(n) THEN render_common(s, i) ELSE s
         IN RenderAll(s1, n.children, 1)

\* print_tree, lines 603-627: the note printed for each node, in order
RECURSIVE print_tree(_, _)
RECURSIVE PrintAll(_, _, _)
PrintAll(ns, chs, k) ==
    IF k > Len(chs) THEN <<>>
    ELSE print_tree(ns, chs[k]) \o PrintAll(ns, chs, k + 1)

print_tree(ns, i) ==
    <<<<IF ns[i].gets_modified THEN "gets modified"
        ELSE IF ns[i].exists THEN "exists already" ELSE "upload", i>>>>
    \o PrintAll(ns, ns[i].children, 1)

\* lines 645-646: scp of every entry of the staging directory; a directory
\* is not copied (scp without -r), a file replaces the device's file
RECURSIVE ScpMeta(_, _, _)
ScpMeta(dev, staged, k) ==
    IF k > Len(staged) THEN dev
    ELSE ScpMeta(Put(dev, staged[k][1], staged[k][2]), staged, k + 1)

RECURSIVE ScpFiles(_, _, _)
ScpFiles(dev, staged, k) ==
    IF k > Len(staged) THEN dev
    ELSE ScpFiles(IF staged[k][2] = "dir" THEN dev
                  ELSE Put(dev, staged[k][1], staged[k][2]), staged, k + 1)

\* a copied .metadata file replaces what the device had under that name
Transfer(dev, prep) ==
    [meta  |-> ScpMeta(dev.meta, prep.meta, 1),
     files |-> ScpFiles(dev.files, prep.files, 1),
     raw   |-> SelectSeq(dev.raw, LAMBDA e : ~HasKey(prep.meta, e[1]))]

(***************************************************************************)
(* pull_from_remarkable, lines 654-692, and the pull side of the tree.     *)
(* The local destination directory is a dict from a path relative to it    *)
(* (a sequence of names, <<>> for the directory itself) to "dir" or to the *)
(* bytes of a file.                                                        *)
(***************************************************************************)
\* lines 671-676: the synthetic Folder nodes of the parents; [s, anchor]
RECURSIVE PullParents(_, _, _, _)
PullParents(s, parents, k, anchor) ==
    IF k > Len(parents) THEN [s |-> s, anchor |-> anchor]
    ELSE LET idx == Len(s.nodes) + 1
             s1 == [s EXCEPT !.nodes = Append(@, Folder(s.nodes, parents[k], anchor))]
         IN PullParents(IF anchor = 0 THEN s1 ELSE add_child(s1, anchor, idx),
                        parents, k + 1, idx)

\* lines 668-686, one requested path, on s = [nodes, anchors, out, err].
\* get_metadata_by_name gives the dict uuid -> metadata of the records of
\* that name, so metadata['type'] looks up the uuid 'type': a KeyError
\* unless a record has that uuid, and then a metadata dict, which is not
\* the string 'DocumentType'.
PullResolveOne(s, doc) ==
    LET p        == PullParents(s, SubSeq(doc, 1, Len(doc) - 1), 1, 0)
        target   == doc[Len(doc)]
        metadata == get_metadata_by_name(target)
        idx      == Len(p.s.nodes) + 1
    IN IF metadata # NoTuple
       THEN IF ~HasKey(metadata, "type")
            THEN [p.s EXCEPT !.err = "KeyError"]
            ELSE [p.s EXCEPT !.nodes = Append(@, Folder(p.s.nodes, target, p.anchor)),
                             !.anchors = Append(@, idx)]
       ELSE [p.s EXCEPT !.out = Append(@, <<"Cannot find", doc>>)]

RECURSIVE PullResolveAll(_, _, _)
PullResolveAll(s, documents, k) ==
    IF k > Len(documents) \/ s.err # "none" THEN s
    ELSE PullResolveAll(PullResolveOne(s, documents[k]), documents, k + 1)

\* lines 440-442
DisplayToFile(name) == IF EndsWithPdf(name) THEN name ELSE name \o <<".", "pdf">>

\* Folder.build, lines 431-447, and Document.build, lines 374-380
RECURSIVE build(_, _)
RECURSIVE BuildChildren(_, _, _, _)
BuildChildren(s, i, recs, k) ==
    IF k > Len(recs) \/ s.err # "none" THEN s
    ELSE LET uuid == recs[k][1]
             md   == recs[k][2]
             idx  == Len(s.nodes) + 1
             ch0  == IF md.type = "CollectionType"
                     THEN Folder(s.nodes, md.visibleName, i)
                     ELSE Document(s.nodes, DisplayToFile(md.visibleName), "", i)
             ch   == [ch0 EXCEPT !.id = uuid]
             s1   == add_child([s EXCEPT !.nodes = Append(@, ch)], i, idx)
         IN BuildChildren(build(s1, idx), i, recs, k + 1)

build(s, i) ==
    IF s.nodes[i].kind = "Document" THEN s
    ELSE BuildChildren(s, i, get_metadata_by_parent(s.nodes[i].id), 1)

\* urllib.request.urlopen(.../download/<id>/placeholder).read(), line 401
Fetch(id) == "pdf of " \o id

\* line 395
LocalFileName(name) ==
    IF EndsWithPdf(LowerName(name)) THEN name ELSE name \o <<".", "pdf">>

\* Document.download, lines 383-409, on s = [fs, out, err];
\* d = [dryrun, if_exists, web].  The name if_exists of lines 397 and 399 is
\* bound nowhere in the module (the policy is a parameter of the two mode
\* functions and an attribute of args), so reading it raises NameError
\* before either branch is chosen; a file that does not exist has no branch.
DocumentDownload(s, n, targetdir, d) ==
    LET filename == Append(targetdir, LocalFileName(n.name)) IN
    IF d.dryrun THEN [s EXCEPT !.out = Append(@, <<"downloading document to",
                                                    Append(targetdir, n.name)>>)]
    ELSE IF ~HasKey(s.fs, targetdir) THEN [s EXCEPT !.err = "FileNotFoundError"]
    ELSE IF HasKey(s.fs, filename) THEN [s EXCEPT !.err = "NameError"]
    ELSE s

\* Folder.download, lines 450-468, and the dispatch on the node's class
RECURSIVE download(_, _, _, _, _)
RECURSIVE DownloadChildren(_, _, _, _, _, _)
DownloadChildren(s, ns, chs, k, targetdir, d) ==
    IF k > Len(chs) \/ s.err # "none" THEN s
    ELSE DownloadChildren(download(s, ns, chs[k], targetdir, d), ns, chs, k + 1,
                          targetdir, d)

download(s, ns, i, targetdir, d) ==
    LET n   == ns[i]
        dir == Append(targetdir, n.name)
    IN IF n.kind = "Document" THEN DocumentDownload(s, n, targetdir, d)
       ELSE IF d.dryrun
       THEN DownloadChildren([s EXCEPT !.out = Append(@, <<"creating directory", dir>>)],
                             ns, n.children, 1, dir, d)
       ELSE IF ~HasKey(s.fs, targetdir) THEN [s EXCEPT !.err = "FileNotFoundError"]
       ELSE IF HasKey(s.fs, dir) /\ Get(s.fs, dir) # "dir"
       THEN [s EXCEPT !.err = "FileExistsError"]
       ELSE DownloadChildren([s EXCEPT !.fs = Put(@, dir, "dir")],
                             ns, n.children, 1, dir, d)

\* lines 689-692 on s = [nodes, fs, out, err]: build, curb, download
RECURSIVE PullAnchors(_, _, _, _, _)
PullAnchors(s, anchors, k, excludelist, d) ==
    IF k > Len(anchors) \/ s.err # "none" THEN s
    ELSE LET b  == build([nodes |-> s.nodes, err |-> s.err], anchors[k])
             cu == curb_tree(b.nodes, anchors[k], excludelist)
             dl == IF b.err # "none" \/ cu.curbed
                   THEN [fs |-> s.fs, out |-> s.out, err |-> b.err]
                   ELSE download([fs |-> s.fs, out |-> s.out, err |-> "none"],
                                 cu.nodes, anchors[k], <<>>, d)
         IN PullAnchors([nodes |-> cu.nodes, fs |-> dl.fs, out |-> dl.out,
                         err |-> dl.err],
                        anchors, k + 1, excludelist, d)

(***************************************************************************)
(* The inputs of the model: device records, local entries, command lines.  *)
(***************************************************************************)
nA == <<"A">>
nB == <<"B">>
nC == <<"C">>
nBc == <<"B", "c">>
nX == <<"x", ".", "pdf">>
nY == <<"y", ".", "epub">>
nN == <<"n", ".", "txt">>

\* a record xochitl wrote: a document if its name says so, else a folder
Record(name, parent, deleted) ==
    [visibleName |-> name, parent |-> parent,
     type |-> IF Supported(name) THEN "DocumentType" ELSE "CollectionType",
     deleted |-> deleted, lastOpened |-> Supported(name)]

File(name, src) == [name |-> name, isdir |-> FALSE, src |-> src, entries |-> <<>>]
Dir(name, entries) == [name |-> name, isdir |-> TRUE, src |-> "", entries |-> entries]

\* the sequences over S of length at most n
SeqsUpTo(S, n) == UNION {[1..k -> S] : k \in 0..n}

\* the listings ls gives for a device holding some of r1, r2
Listings(R1, R2) ==
    {<<>>} \cup {<<<<"r1", a>>>> : a \in R1} \cup {<<<<"r2", b>>>> : b \in R2}
           \cup {<<<<"r1", a>>, <<"r2", b>>>> : a \in R1, b \in R2}

VisibleRecords(other) ==
    {Record(n, p, FALSE) : n \in {nA, nX}, p \in {RootParent, other}}

AnyRecords(other) ==
    {Record(n, p, d) : n \in {nA, nX}, p \in {RootParent, other, Trash}, d \in BOOLEAN}

LocalEntries ==
    {File(nX, "a/x.pdf"), File(nX, "b/x.pdf"),
     Dir(nA, <<File(nX, "A/x.pdf"), File(nN, "A/n.txt")>>)}

Policies == {"skip", "overwrite", "doconly", "duplicate"}

Args(mode, dryrun, debug, if_exists, destination, documents, excludes, custom) ==
    [mode |-> mode, dryrun |-> dryrun, debug |-> debug, if_exists |-> if_exists,
     destination |-> destination, documents |-> documents,
     exclude_patterns |-> excludes, custom_prepdir |-> custom]

\* pushes under every policy, of lists of local entries
PushArgs ==
    {Args("push", fl[1], fl[2], pol, dest, docs, <<>>, FALSE) :
        fl \in {<<FALSE, FALSE>>, <<TRUE, FALSE>>, <<FALSE, TRUE>>},
        pol \in Policies, dest \in {<<>>, <<nA>>},
        docs \in SeqsUpTo(LocalEntries, MaxDocs)}

\* pushes with an exclusion and with a caller's staging directory
PushArgsExclude ==
    {Args("push", FALSE, FALSE, "skip", <<nA>>, <<d>>, <<e>>, c) :
        d \in LocalEntries, e \in {<<"A", "/", "A">>, <<"A", "/", "x">>},
        c \in BOOLEAN}

\* pulls; a requested path is a sequence of names
PullPaths == {<<nX>>, <<nA>>, <<nB>>, <<nB, nX>>, <<nA, nX>>}

PullArgs ==
    {Args("pull", dry, FALSE, "skip", <<>>, docs, <<>>, FALSE) :
        dry \in BOOLEAN, docs \in SeqsUpTo(PullPaths, MaxDocs)}

\* one command line of each mode, for the devices with invisible records
ModeArgs ==
    {Args("pull", FALSE, FALSE, "skip", <<>>, <<<<nX>>>>, <<>>, FALSE),
     Args("pull", FALSE, FALSE, "duplicate", <<>>, <<<<nX>>>>, <<>>, FALSE),
     Args("backup", FALSE, FALSE, "doconly", <<>>, <<>>, <<>>, FALSE),
     Args("backup", FALSE, FALSE, "skip", <<>>, <<>>, <<>>, FALSE)}

InitRun(a, dev, fs, web) ==
    /\ pc = "start"
    /\ run = 1
    /\ args = a
    /\ xochitl = dev
    /\ web_enabled = web
    /\ ssh_connection = "none"
    /\ default_prepdir = TRUE
    /\ prepdir = EmptyDir
    /\ metadata_by_uuid = <<>>
    /\ metadata_by_name = <<>>
    /\ metadata_by_parent = <<>>
    /\ metadata_by_name_and_parent = <<>>
    /\ nodes = <<>>
    /\ root = <<>>
    /\ gen = 0
    /\ writes = {}
    /\ out = <<>>
    /\ exc = "none"
    /\ localfs = fs
    /\ snapshot = <<>>
    /\ localfs0 = fs
    /\ pushed = <<>>

EmptyLocal == <<<<<<>>, "dir">>>>

Init ==
    \/ \E a \in PushArgs, l \in Listings(VisibleRecords("r2"), VisibleRecords("r1")) :
          InitRun(a, [meta |-> l, files |-> <<>>, raw |-> <<>>], EmptyLocal, TRUE)
    \/ \E a \in PushArgsExclude, l \in Listings(VisibleRecords("r2"), VisibleRecords("r1")) :
          InitRun(a, [meta |-> l, files |-> <<>>, raw |-> <<>>], EmptyLocal, TRUE)
    \/ \E l \in Listings(AnyRecords("r2"), AnyRecords("r1")) :
          InitRun(Args("push", FALSE, FALSE, "skip", <<>>, <<File(nX, "a/x.pdf")>>,
                       <<>>, FALSE),
                  [meta |-> l, files |-> <<>>, raw |-> <<>>], EmptyLocal, TRUE)
    \/ \E a \in ModeArgs, l \in Listings(AnyRecords("r2"), AnyRecords("r1")) :
          InitRun(a, [meta |-> l, files |-> <<>>, raw |-> <<>>], EmptyLocal, TRUE)
    \/ \E a \in PullArgs, l \in Listings(VisibleRecords("r2"), VisibleRecords("r1")) :
          InitRun(a, [meta |-> l, files |-> <<>>, raw |-> <<>>], EmptyLocal, TRUE)

(***************************************************************************)
(* The run, lines 696-723.                                                 *)
(***************************************************************************)
ProcessVars == <<run, args, web_enabled, localfs0>>

IndexVars == <<metadata_by_uuid, metadata_by_name, metadata_by_parent,
               metadata_by_name_and_parent, snapshot>>

\* lines 698-705: the control connection is started; the check fails
SshCheckFail ==
    /\ pc = "start"
    /\ ssh_connection' = "up"
    /\ exc' = "exit255"
    /\ pc' = "finally"
    /\ UNCHANGED <<ProcessVars, xochitl, default_prepdir, prepdir, IndexVars,
                   nodes, root, gen, writes, out, localfs, pushed>>

\* lines 698-702: the control connection is started; the check passes
SshCheckOk ==
    /\ pc = "start"
    /\ ssh_connection' = "up"
    /\ pc' = "retrieve"
    /\ UNCHANGED <<ProcessVars, xochitl, default_prepdir, prepdir, IndexVars,
                   nodes, root, gen, writes, out, exc, localfs, pushed>>

\* line 707
RetrieveMetadata ==
    /\ pc = "retrieve"
    /\ LET ix == retrieve_metadata([by_uuid |-> metadata_by_uuid,
                                    by_name |-> metadata_by_name,
                                    by_parent |-> metadata_by_parent,
                                    by_name_and_parent |-> metadata_by_name_and_parent,
                                    raised |-> "none"], xochitl)
       IN /\ metadata_by_uuid' = ix.by_uuid
          /\ metadata_by_name' = ix.by_name
          /\ metadata_by_parent' = ix.by_parent
          /\ metadata_by_name_and_parent' = ix.by_name_and_parent
          /\ exc' = ix.raised
          /\ pc' = IF ix.raised = "none" THEN "dispatch" ELSE "finally"
    /\ snapshot' = xochitl.meta
    /\ UNCHANGED <<ProcessVars, xochitl, ssh_connection, default_prepdir, prepdir,
                   nodes, root, gen, writes, out, localfs, pushed>>

\* lines 708-709 and 546-585: the tree of the push is built and curbed
PushBuild ==
    /\ pc = "dispatch"
    /\ args.mode = "push"
    /\ LET r  == ConstructPushTree([nodes |-> nodes, gen |-> gen, err |-> "none"], args)
           cu == CurbRoots(r.s.nodes, r.roots, 1, args.exclude_patterns, <<>>)
       IN /\ nodes' = cu.nodes
          /\ gen' = r.s.gen
          /\ root' = cu.roots
          /\ exc' = r.s.err
          /\ pushed' = Append(pushed, [nodes |-> r.s.nodes, root |-> r.roots])
          /\ pc' = IF r.s.err # "none" THEN "finally" ELSE "built"
    /\ UNCHANGED <<ProcessVars, xochitl, ssh_connection, default_prepdir, prepdir,
                   IndexVars, writes, out, localfs>>

\* lines 588-631
PushPrintTree ==
    /\ pc = "built"
    /\ args.dryrun
    /\ out' = out \o PrintAll(nodes, root, 1)
    /\ pc' = "finally"
    /\ UNCHANGED <<ProcessVars, xochitl, ssh_connection, default_prepdir, prepdir,
                   IndexVars, nodes, root, gen, writes, exc, localfs, pushed>>

RenderRoots ==
    RenderAll([nodes |-> nodes, gen |-> gen, err |-> "none", prep |-> prepdir,
               writes |-> writes], root, 1)

\* lines 633-637: an exception leaves the function, nothing is cleaned
PushRenderDebug ==
    /\ pc = "built"
    /\ ~args.dryrun /\ args.debug
    /\ LET s == RenderRoots
       IN /\ nodes' = s.nodes /\ gen' = s.gen /\ prepdir' = s.prep
          /\ writes' = s.writes /\ exc' = s.err
    /\ pc' = "finally"
    /\ UNCHANGED <<ProcessVars, xochitl, ssh_connection, default_prepdir,
                   IndexVars, root, out, localfs, pushed>>

\* lines 641-643
PushRender ==
    /\ pc = "built"
    /\ ~args.dryrun /\ ~args.debug
    /\ LET s == RenderRoots
       IN /\ nodes' = s.nodes /\ gen' = s.gen /\ prepdir' = s.prep
          /\ writes' = s.writes /\ exc' = s.err
          /\ pc' = IF s.err = "none" THEN "rendered" ELSE "cleanup"
    /\ UNCHANGED <<ProcessVars, xochitl, ssh_connection, default_prepdir,
                   IndexVars, root, out, localfs, pushed>>

\* lines 645-647
PushTransfer ==
    /\ pc = "rendered"
    /\ xochitl' = Transfer(xochitl, prepdir)
    /\ pc' = "cleanup"
    /\ UNCHANGED <<ProcessVars, ssh_connection, default_prepdir, prepdir,
                   IndexVars, nodes, root, gen, writes, out, exc, localfs, pushed>>

\* lines 649-651
PushCleanup ==
    /\ pc = "cleanup"
    /\ IF args.custom_prepdir
       THEN UNCHANGED <<default_prepdir, prepdir>>
       ELSE default_prepdir' = FALSE /\ prepdir' = EmptyDir
    /\ pc' = "finally"
    /\ UNCHANGED <<ProcessVars, xochitl, ssh_connection,
                   IndexVars, nodes, root, gen, writes, out, exc, localfs, pushed>>

\* lines 710-711 and 661-686
PullResolve ==
    /\ pc = "dispatch"
    /\ args.mode = "pull"
    /\ LET s == IF args.if_exists \notin {"skip", "overwrite"}      \* line 661
                THEN [nodes |-> nodes, anchors |-> <<>>, out |-> out,
                      err |-> "AssertionError"]
                ELSE PullResolveAll([nodes |-> nodes, anchors |-> <<>>, out |-> out,
                                     err |-> "none"], args.documents, 1)
       IN /\ nodes' = s.nodes /\ root' = s.anchors /\ out' = s.out /\ exc' = s.err
          /\ pc' = IF s.err = "none" THEN "anchors" ELSE "finally"
    /\ UNCHANGED <<ProcessVars, xochitl, ssh_connection, default_prepdir, prepdir,
                   IndexVars, gen, writes, localfs, pushed>>

\* lines 712-714 and 471-478: iterating the dict of the top-level records
\* gives its keys, and a uuid does not unpack into (u, md)
Backup ==
    /\ pc = "dispatch"
    /\ args.mode = "backup"
    /\ IF get_metadata_by_parent(RootParent) # <<>>
       THEN exc' = "ValueError" /\ pc' = "finally" /\ UNCHANGED args
       ELSE IF args.if_exists \notin {"skip", "overwrite"}          \* line 661
       THEN exc' = "AssertionError" /\ pc' = "finally"
            /\ args' = [args EXCEPT !.documents = <<>>]
       ELSE exc' = exc /\ pc' = "anchors" /\ args' = [args EXCEPT !.documents = <<>>]
    /\ UNCHANGED <<run, web_enabled, localfs0, xochitl, ssh_connection,
                   default_prepdir, prepdir, IndexVars, nodes, root, gen, writes, out,
                   localfs, pushed>>

\* lines 689-692
PullDownload ==
    /\ pc = "anchors"
    /\ LET s == PullAnchors([nodes |-> nodes, fs |-> localfs, out |-> out,
                             err |-> "none"], root, 1, args.exclude_patterns,
                            [dryrun |-> args.dryrun, if_exists |-> args.if_exists,
                             web |-> web_enabled])
       IN nodes' = s.nodes /\ localfs' = s.fs /\ out' = s.out /\ exc' = s.err
    /\ pc' = "finally"
    /\ UNCHANGED <<ProcessVars, xochitl, ssh_connection, default_prepdir, prepdir,
                   IndexVars, root, gen, writes, pushed>>

\* lines 721-723
Finally ==
    /\ pc = "finally"
    /\ ssh_connection' = "terminated"
    /\ pc' = "done"
    /\ UNCHANGED <<ProcessVars, xochitl, default_prepdir, prepdir, IndexVars, nodes,
                   root, gen, writes, out, exc, localfs, pushed>>

Next ==
    \/ SshCheckFail \/ SshCheckOk \/ RetrieveMetadata
    \/ PushBuild \/ PushPrintTree \/ PushRenderDebug \/ PushRender
    \/ PushTransfer \/ PushCleanup
    \/ PullResolve \/ Backup \/ PullDownload
    \/ Finally

Spec == Init /\ [][Next]_vars

(***************************************************************************)
(* Vocabulary of the properties.                                           *)
(***************************************************************************)
Range(q) == {q[k] : k \in 1..Len(q)}

\* the records of the snapshot that are neither deleted nor in the trash
VisibleSnapshot ==
    {r \in Range(snapshot) : ~r[2].deleted /\ r[2].parent # Trash}

\* the id under which the node's parent is known, "" for a root
ParentId(i) == IF nodes[i].parent = 0 THEN RootParent ELSE nodes[nodes[i].parent].id

\* the ids of the visible records with the node's name under its parent's id
MatchIds(i) ==
    {r[1] : r \in {v \in VisibleSnapshot :
                     v[2].visibleName = nodes[i].name /\ v[2].parent = ParentId(i)}}

\* the staged files the node's render wrote
NodeWrites(i) == {w.file : w \in {v \in writes : v.node = i}}

RECURSIVE SubtreeOf(_, _)
SubtreeOf(ns, i) ==
    {i} \cup UNION {SubtreeOf(ns, ns[i].children[k]) : k \in 1..Len(ns[i].children)}

\* the nodes of the tree after the exclusions
Attached == UNION {SubtreeOf(nodes, root[k]) : k \in 1..Len(root)}

GeneratedIds == {gen_did(k) : k \in 1..gen}

\* render was called on the roots of a push
RenderRan ==
    /\ args.mode = "push" /\ ~args.dryrun /\ nodes # <<>>
    /\ pc \in {"rendered", "cleanup", "finally", "done"}

\* the staging directory still holds what a completed render wrote
Staged ==
    /\ RenderRan /\ exc = "none"
    /\ pc = "rendered" \/ args.debug \/ args.custom_prepdir

DocFiles(i, id) ==
    {<<id, "metadata">>, <<id, "content">>, <<id, nodes[i].filetype>>}

(***************************************************************************)
(* C1: in a push, a node that is Reused (a visible record has its name     *)
(* under its parent's id and, for a Document, the policy is skip) has no   *)
(* file written for it into the staging directory.                         *)
(***************************************************************************)
ReusedByClaim(i) ==
    /\ MatchIds(i) # {}
    /\ nodes[i].kind = "Document" => args.if_exists = "skip"

C1_ReusedWritesNothing ==
    args.mode = "push" =>
        \A i \in 1..Len(nodes) : ReusedByClaim(i) => NodeWrites(i) = {}

C1_Witness ==
    /\ pc = "rendered" /\ writes # {}
    /\ \E i \in Attached : ReusedByClaim(i) /\ nodes[i].kind = "Document"
    /\ \E i \in Attached : ReusedByClaim(i) /\ nodes[i].kind = "Folder"

(***************************************************************************)
(* C2: in a push with policy duplicate, a Document whose name a visible    *)
(* record has under the same parent is New (neither existing nor           *)
(* modified), its id was generated by gen_did and is not the record's id,  *)
(* and every file rendered for it is named by that id: after render, its   *)
(* metadata, content and payload.                                          *)
(***************************************************************************)
C2_DuplicateIsFresh ==
    (args.mode = "push" /\ args.if_exists = "duplicate") =>
        \A i \in 1..Len(nodes) :
            (nodes[i].kind = "Document" /\ MatchIds(i) # {}) =>
                /\ ~nodes[i].exists /\ ~nodes[i].gets_modified
                /\ nodes[i].id \in GeneratedIds
                /\ nodes[i].id \notin MatchIds(i)
                /\ \A f \in NodeWrites(i) : f[1] = nodes[i].id
                /\ (Staged /\ i \in Attached) =>
                       /\ DocFiles(i, nodes[i].id) \subseteq NodeWrites(i)
                       /\ HasKey(prepdir.meta, nodes[i].id)
                       /\ \A r \in MatchIds(i) : ~HasKey(prepdir.meta, r)
                /\ (args.dryrun /\ pc = "done" /\ exc = "none" /\ i \in Attached) =>
                       <<"upload", i>> \in Range(out)

C2_Witness ==
    /\ pc = "rendered" /\ args.if_exists = "duplicate"
    /\ \E i \in Attached :
          /\ nodes[i].kind = "Document" /\ Cardinality(MatchIds(i)) = 1
          /\ NodeWrites(i) # {}

(***************************************************************************)
(* C3: in a push with policy doconly, rendering completes, and for a       *)
(* Document whose name a visible record has under the same parent exactly  *)
(* one file is staged: the payload named <record id>.<filetype>.           *)
(***************************************************************************)
C3_DoconlyPayloadOnly ==
    (RenderRan /\ args.if_exists = "doconly") =>
        \A i \in Attached :
            (nodes[i].kind = "Document" /\ MatchIds(i) # {}) =>
                /\ exc = "none"
                /\ NodeWrites(i) = {<<r, nodes[i].filetype>> : r \in MatchIds(i)}

(***************************************************************************)
(* C4: in a push with policy overwrite, a Document whose name a visible    *)
(* record has under the same parent keeps that record's id, is marked      *)
(* gets_modified, and render stages its metadata, its content and its      *)
(* payload under that id.                                                  *)
(***************************************************************************)
C4_OverwriteRerenders ==
    (args.mode = "push" /\ args.if_exists = "overwrite") =>
        \A i \in Attached :
            (nodes[i].kind = "Document" /\ MatchIds(i) # {}) =>
                /\ nodes[i].id \in MatchIds(i)
                /\ nodes[i].gets_modified
                /\ RenderRan => DocFiles(i, nodes[i].id) \subseteq NodeWrites(i)

(***************************************************************************)
(* C5: building the index raises the collision error exactly when two      *)
(* visible records of the snapshot (not deleted, parent not 'trash') have  *)
(* the same name under the same parent, and then the run ends with nothing *)
(* staged, nothing transferred to the device and nothing downloaded: no    *)
(* tree is even built.                                                     *)
(***************************************************************************)
VisibleCollision(l) ==
    \E i, j \in 1..Len(l) :
        /\ i < j
        /\ ~l[i][2].deleted /\ l[i][2].parent # Trash
        /\ ~l[j][2].deleted /\ l[j][2].parent # Trash
        /\ l[i][2].visibleName = l[j][2].visibleName
        /\ l[i][2].parent = l[j][2].parent

IndexWasBuilt == pc \notin {"start", "retrieve"} /\ exc # "exit255"

C5_CollisionAbortsBeforeAnyWrite ==
    IndexWasBuilt =>
        /\ exc = "FileCollision" <=> VisibleCollision(snapshot)
        /\ VisibleCollision(snapshot) =>
              /\ pc \in {"finally", "done"}
              /\ nodes = <<>> /\ writes = {} /\ prepdir = EmptyDir
              /\ xochitl.meta = snapshot /\ xochitl.files = <<>>
              /\ localfs = localfs0

C5_Witness ==
    /\ pc = "done" /\ exc = "FileCollision"
    /\ VisibleCollision(snapshot)

\* a name two records share under one parent, one of them deleted or trashed
C5_WitnessInvisible ==
    /\ pc = "done" /\ exc = "none" /\ Len(snapshot) = 2
    /\ snapshot[1][2].visibleName = snapshot[2][2].visibleName
    /\ snapshot[1][2].parent = snapshot[2][2].parent
    /\ snapshot[1][2].deleted # snapshot[2][2].deleted

(***************************************************************************)
(* C6: in a push with policy skip, a node exists exactly when a visible    *)
(* record has its name under its parent's id (the same name under another  *)
(* parent is no match) and then has that record's id.  A folder node that  *)
(* matches a Folder record R is Reused with R's id and nothing is written  *)
(* for it; a document in it that no visible record (name, R.id) matches is *)
(* New, gets a generated id, one metadata and one content file, and its    *)
(* metadata names R.id as parent.  When the tree is that folder and that   *)
(* document, one metadata file is staged in all.                           *)
(***************************************************************************)
FolderRecordIds(i) ==
    {r[1] : r \in {v \in VisibleSnapshot :
                     /\ v[2].visibleName = nodes[i].name
                     /\ v[2].parent = ParentId(i)
                     /\ v[2].type = "CollectionType"}}

C6_SkipReusesFolderAddsDocument ==
    (args.mode = "push" /\ args.if_exists = "skip") =>
        /\ \A i \in 1..Len(nodes) :
              /\ nodes[i].exists <=> MatchIds(i) # {}
              /\ nodes[i].exists => nodes[i].id \in MatchIds(i)
        /\ \A f \in Attached : \A k \in 1..Len(nodes[f].children) :
              LET c == nodes[f].children[k] IN
              (/\ nodes[f].kind = "Folder" /\ FolderRecordIds(f) # {}
               /\ nodes[c].kind = "Document" /\ MatchIds(c) = {}) =>
                  /\ nodes[f].exists /\ nodes[f].id \in FolderRecordIds(f)
                  /\ NodeWrites(f) = {}
                  /\ ~nodes[c].exists /\ ~nodes[c].gets_modified
                  /\ Staged =>
                        /\ nodes[c].id \in GeneratedIds
                        /\ NodeWrites(c) = DocFiles(c, nodes[c].id)
                                 \cup {<<nodes[c].id, "">>, <<nodes[c].id, "thumbnails">>}
                        /\ HasKey(prepdir.meta, nodes[c].id)
                        /\ Get(prepdir.meta, nodes[c].id).parent = nodes[f].id
                        /\ Len(nodes) = 2 => Len(prepdir.meta) = 1

\* the folder is reused, its document is new, and a record has the
\* document's name under another parent
C6_Witness ==
    /\ pc = "rendered" /\ args.if_exists = "skip" /\ Len(nodes) = 2
    /\ FolderRecordIds(1) # {} /\ nodes[1].children = <<2>>
    /\ nodes[2].kind = "Document" /\ MatchIds(2) = {}
    /\ \E v \in VisibleSnapshot : v[2].visibleName = nodes[2].name
    /\ Len(prepdir.meta) = 1

(***************************************************************************)
(* The dry-run pushes of one local folder under lists of exclusions, with  *)
(* a working connection: the tree that construct_node_tree_from_disk built *)
(* (kept in `pushed`) against the tree curb_tree left.                     *)
(***************************************************************************)
MaxExcludes == 2                 \* longest list of exclude patterns

CurbEntries ==
    {File(nX, "A/x.pdf"),
     Dir(nB, <<>>),
     Dir(nB, <<File(nX, "A/B/x.pdf"), Dir(nC, <<File(nX, "A/B/C/x.pdf")>>)>>),
     Dir(nBc, <<File(nX, "A/Bc/x.pdf")>>),
     Dir(nC, <<File(nX, "A/C/x.pdf")>>)}

CurbPatterns ==
    {<<"A", "/", "B">>, <<"A", "/", "B", "$">>, <<"A", "/", "B", "/">>,
     <<"A", "/", "C">>, <<"A", "/", ".", "$">>, <<"A", "/", "x", "\\.", "pdf">>}

InitCurb ==
    \E kids \in SeqsUpTo(CurbEntries, MaxDocs),
       excludes \in SeqsUpTo(CurbPatterns, MaxExcludes) :
        InitRun(Args("push", TRUE, FALSE, "skip", <<>>, <<Dir(nA, kids)>>, excludes, FALSE),
                [meta |-> <<>>, files |-> <<>>, raw |-> <<>>], EmptyLocal, TRUE)

NextCurb ==
    SshCheckOk \/ RetrieveMetadata \/ PushBuild \/ PushPrintTree \/ Finally

SpecCurb == InitCurb /\ [][NextCurb]_vars

(***************************************************************************)
(* C7: curb_tree removes a node exactly when its own full path or the full *)
(* path of one of its ancestors matches a pattern: with an exclusion for   *)
(* A/B, the node A/B and all its descendants.  Every other node stays,     *)
(* with its surviving children in their original order (a sibling A/C and  *)
(* its subtree), also when all its children were removed.  Under patterns  *)
(* without "$" the removed nodes are those whose own path matches.         *)
(***************************************************************************)
Built == pushed[Len(pushed)]

Matched(i) == Excluded(Built.nodes, i, args.exclude_patterns)

RECURSIVE SelfAndAncestors(_, _)
SelfAndAncestors(ns, i) ==
    {i} \cup IF ns[i].parent = 0 THEN {} ELSE SelfAndAncestors(ns, ns[i].parent)

Cut(i) == \E a \in SelfAndAncestors(Built.nodes, i) : Matched(a)

Unanchored ==
    \A k \in 1..Len(args.exclude_patterns) :
        args.exclude_patterns[k][Len(args.exclude_patterns[k])] # "$"

C7_CurbRemovesExactlyMatchedSubtrees ==
    (args.mode = "push" /\ pc \in {"built", "finally", "done"} /\ pushed # <<>>) =>
        /\ Attached = {i \in 1..Len(Built.nodes) : ~Cut(i)}
        /\ root = SelectSeq(Built.root, LAMBDA c : ~Matched(c))
        /\ \A i \in Attached :
              nodes[i].children = SelectSeq(Built.nodes[i].children, LAMBDA c : ~Matched(c))
        /\ Unanchored => \A i \in 1..Len(Built.nodes) : i \notin Attached <=> Matched(i)

\* A/B keeps its place though all its children went; A/B/C went with its
\* document; the sibling A/C kept its document
C7_Witness ==
    /\ pc = "done" /\ pushed # <<>>
    /\ \E i \in Attached :
          /\ get_full_path(nodes, i) = <<"A", "/", "B">>
          /\ Built.nodes[i].children # <<>> /\ nodes[i].children = <<>>
    /\ \E i \in 1..Len(Built.nodes) :
          /\ Built.nodes[i].children # <<>> /\ i \notin Attached
    /\ \E i \in Attached :
          /\ get_full_path(nodes, i) = <<"A", "/", "C">>
          /\ nodes[i].children # <<>>
          /\ nodes[i].children = Built.nodes[i].children

(***************************************************************************)
(* C8: in a pull, a requested path whose first segment has no visible      *)
(* record under the root is reported as not found and creates nothing      *)
(* locally, and the run goes on: it ends without an exception, and every   *)
(* other requested name that a visible top-level record has becomes an     *)
(* anchor.                                                                 *)
(***************************************************************************)
TopLevelNames == {v[2].visibleName : v \in {r \in VisibleSnapshot : r[2].parent = RootParent}}

C8_MissingFolderIsSkipped ==
    (/\ args.mode = "pull" /\ pc = "done"
     /\ args.if_exists \in {"skip", "overwrite"}
     /\ exc \notin {"exit255", "FileCollision"}) =>
        \A k \in 1..Len(args.documents) :
            LET doc == args.documents[k] IN
            (Len(doc) >= 2 /\ doc[1] \notin TopLevelNames) =>
                /\ exc = "none"
                /\ <<"Cannot find", doc>> \in Range(out)
                /\ ~HasKey(localfs, <<doc[1]>>)
                /\ \A j \in 1..Len(args.documents) :
                      (Len(args.documents[j]) = 1 /\ args.documents[j][1] \in TopLevelNames)
                          => \E a \in Range(root) : nodes[a].name = args.documents[j][1]

(***************************************************************************)
(* Document.download and Folder.download called on a node of a pull tree,  *)
(* for every state of the local file the node downloads to.                *)
(***************************************************************************)
nXU == <<"x", ".", "PDF">>
nPlain == <<"n">>

\* the records of a device holding one document, at the top level or in a
\* folder A
DownloadDevices ==
    {<<<<"r2", [Record(nX, RootParent, FALSE) EXCEPT !.visibleName = n]>>>> :
        n \in {nX, nXU, nPlain, nY}}
    \cup {<<<<"r1", Record(nA, RootParent, FALSE)>>,
            <<"r2", [Record(nX, "r1", FALSE) EXCEPT !.visibleName = n]>>>> :
        n \in {nX, nXU, nPlain, nY}}

\* the node of the first record with its descendants, as lines 679-682 and
\* Folder.build make them from the index of that device
DownloadTree(listing) ==
    LET md   == listing[1][2]
        node == IF md.type = "DocumentType" THEN Document(<<>>, md.visibleName, "", 0)
                ELSE Folder(<<>>, md.visibleName, 0)
    IN build([nodes |-> <<node>>, err |-> "none"], 1).nodes

\* the destination directory, with the file and the folder or without
LocalDirs(ns) ==
    LET doc   == ns[Len(ns)]
        under == IF Len(ns) = 1 THEN <<>> ELSE <<nA>>
        file  == Append(under, LocalFileName(doc.name))
    IN {EmptyLocal, Append(EmptyLocal, <<file, "old bytes">>)}
       \cup (IF Len(ns) = 1 THEN {}
             ELSE {Append(EmptyLocal, <<under, "dir">>),
                   Append(Append(EmptyLocal, <<under, "dir">>), <<file, "old bytes">>)})

InitDownload ==
    \E listing \in DownloadDevices, dry \in BOOLEAN, web \in BOOLEAN,
       pol \in {"skip", "overwrite"} :
        LET ix == BuildIndex(EmptyIndex, listing) IN
        /\ pc = "call"
        /\ run = 1
        /\ args = Args("pull", dry, FALSE, pol, <<>>, <<<<listing[1][2].visibleName>>>>,
                       <<>>, FALSE)
        /\ xochitl = [meta |-> listing, files |-> <<>>, raw |-> <<>>]
        /\ web_enabled = web
        /\ ssh_connection = "up"
        /\ default_prepdir = TRUE
        /\ prepdir = EmptyDir
        /\ metadata_by_uuid = ix.by_uuid
        /\ metadata_by_name = ix.by_name
        /\ metadata_by_parent = ix.by_parent
        /\ metadata_by_name_and_parent = ix.by_name_and_parent
        /\ nodes = DownloadTree(listing)
        /\ root = <<1>>
        /\ gen = 0
        /\ writes = {}
        /\ out = <<>>
        /\ exc = "none"
        /\ snapshot = listing
        /\ pushed = <<>>
        /\ \E fs \in LocalDirs(nodes) : localfs = fs /\ localfs0 = fs

\* a.download(targetdir=destination_directory), line 692
DownloadCall ==
    /\ pc = "call"
    /\ LET s == download([fs |-> localfs, out |-> out, err |-> "none"], nodes, root[1],
                         <<>>, [dryrun |-> args.dryrun, if_exists |-> args.if_exists,
                                web |-> web_enabled])
       IN localfs' = s.fs /\ out' = s.out /\ exc' = s.err
    /\ pc' = "returned"
    /\ UNCHANGED <<ProcessVars, xochitl, ssh_connection, default_prepdir, prepdir,
                   IndexVars, nodes, root, gen, writes, pushed>>

SpecDownload == InitDownload /\ [][DownloadCall]_vars

(***************************************************************************)
(* C9: Document.download outside dry-run: when no local file of the        *)
(* computed name exists, the payload is fetched and written to it; when    *)
(* one exists and the policy is skip, the directory is left as it was;     *)
(* when one exists and the policy is overwrite, the file holds the fetched *)
(* bytes.                                                                  *)
(***************************************************************************)
DownloadedFile ==
    Append(IF Len(nodes) = 1 THEN <<>> ELSE <<nA>>, LocalFileName(nodes[Len(nodes)].name))

C9_DownloadWritesOrKeeps ==
    (pc = "returned" /\ ~args.dryrun) =>
        /\ ~HasKey(localfs0, DownloadedFile) =>
              /\ HasKey(localfs, DownloadedFile)
              /\ Get(localfs, DownloadedFile) = Fetch(nodes[Len(nodes)].id)
        /\ (HasKey(localfs0, DownloadedFile) /\ args.if_exists = "skip") =>
              localfs = localfs0 /\ exc = "none"
        /\ (HasKey(localfs0, DownloadedFile) /\ args.if_exists = "overwrite") =>
              Get(localfs, DownloadedFile) = Fetch(nodes[Len(nodes)].id)

(***************************************************************************)
(* Two runs: a local folder is pushed to an empty device, then a second    *)
(* invocation pulls into an empty local directory.                         *)
(***************************************************************************)
RoundTripEntries ==
    {File(nX, "A/x.pdf"), File(nY, "A/y.epub"), File(nN, "A/n.txt"),
     Dir(nB, <<File(nX, "A/B/x.pdf")>>)}

InitRoundTrip ==
    \E kids \in SeqsUpTo(RoundTripEntries, MaxDocs) :
        InitRun(Args("push", FALSE, FALSE, "skip", <<>>, <<Dir(nA, kids)>>, <<>>, FALSE),
                [meta |-> <<>>, files |-> <<>>, raw |-> <<>>], EmptyLocal, TRUE)

\* the program is started again: a pull of the pushed folder, or of a name
\* the device does not have
StartPullRun ==
    /\ pc = "done" /\ run = 1 /\ exc = "none"
    /\ run' = 2
    /\ \E doc \in {<<nA>>, <<nC>>}, dry \in BOOLEAN :
          args' = Args("pull", dry, FALSE, "skip", <<>>, <<doc>>, <<>>, FALSE)
    /\ pc' = "start"
    /\ ssh_connection' = "none"
    /\ default_prepdir' = TRUE
    /\ prepdir' = EmptyDir
    /\ metadata_by_uuid' = <<>>
    /\ metadata_by_name' = <<>>
    /\ metadata_by_parent' = <<>>
    /\ metadata_by_name_and_parent' = <<>>
    /\ snapshot' = <<>>
    /\ nodes' = <<>>
    /\ root' = <<>>
    /\ writes' = {}
    /\ out' = <<>>
    /\ exc' = "none"
    /\ localfs' = EmptyLocal
    /\ localfs0' = EmptyLocal
    /\ UNCHANGED <<xochitl, web_enabled, gen, pushed>>

NextRoundTrip ==
    \/ SshCheckOk \/ RetrieveMetadata
    \/ PushBuild \/ PushRender \/ PushTransfer \/ PushCleanup
    \/ PullResolve \/ PullDownload
    \/ Finally \/ StartPullRun

SpecRoundTrip == InitRoundTrip /\ [][NextRoundTrip]_vars

(***************************************************************************)
(* C10: after a local folder was pushed to an empty device, a pull of that *)
(* folder into an empty directory in a following run creates local        *)
(* entries under the folder's name whose names are the names of the pushed *)
(* children, a document's name with .pdf appended when it does not end so. *)
(***************************************************************************)
PushedChildNames ==
    {IF pushed[1].nodes[c].kind = "Document" THEN DisplayToFile(pushed[1].nodes[c].name)
     ELSE pushed[1].nodes[c].name : c \in Range(pushed[1].nodes[1].children)}

LocalChildNames(dir) ==
    {p[2] : p \in {q \in Keys(localfs) : Len(q) = 2 /\ q[1] = dir}}

C10_PushThenPullSameChildNames ==
    (run = 2 /\ pc = "done" /\ ~args.dryrun /\ args.documents = <<<<nA>>>>) =>
        LocalChildNames(nA) = PushedChildNames

(***************************************************************************)
(* retrieve_metadata called a second time on the same device: the dicts of *)
(* lines 157-160 are module globals that the function fills and never      *)
(* empties.                                                                *)
(***************************************************************************)
InitReindex ==
    \E l \in Listings(AnyRecords("r2"), AnyRecords("r1")) :
        InitRun(Args("pull", FALSE, FALSE, "skip", <<>>, <<<<nX>>>>, <<>>, FALSE),
                [meta |-> l, files |-> <<>>, raw |-> <<>>], EmptyLocal, TRUE)

\* retrieve_metadata(), lines 162-189, after a call that returned
RetrieveAgain ==
    /\ pc = "dispatch"
    /\ LET ix == retrieve_metadata([by_uuid |-> metadata_by_uuid,
                                    by_name |-> metadata_by_name,
                                    by_parent |-> metadata_by_parent,
                                    by_name_and_parent |-> metadata_by_name_and_parent,
                                    raised |-> "none"], xochitl)
       IN /\ metadata_by_uuid' = ix.by_uuid
          /\ metadata_by_name' = ix.by_name
          /\ metadata_by_parent' = ix.by_parent
          /\ metadata_by_name_and_parent' = ix.by_name_and_parent
          /\ exc' = ix.raised
    /\ snapshot' = xochitl.meta
    /\ pc' = "reindexed"
    /\ UNCHANGED <<ProcessVars, xochitl, ssh_connection, default_prepdir, prepdir,
                   nodes, root, gen, writes, out, localfs, pushed>>

\* the exception of the second call, or its return, ends the run
ReindexEnd ==
    /\ pc = "reindexed"
    /\ pc' = "finally"
    /\ UNCHANGED <<ProcessVars, xochitl, ssh_connection, default_prepdir, prepdir,
                   IndexVars, nodes, root, gen, writes, out, exc, localfs, pushed>>

NextReindex == SshCheckOk \/ RetrieveMetadata \/ RetrieveAgain \/ ReindexEnd \/ Finally

SpecReindex == InitReindex /\ [][NextReindex]_vars

(***************************************************************************)
(* C11: when a first build of the index succeeded, a second build from the *)
(* same snapshot succeeds too and leaves the four dicts, and so every      *)
(* lookup by uuid, by name, by parent and by name and parent, as the first *)
(* build left them.                                                        *)
(***************************************************************************)
C11_SecondBuildSameLookups ==
    [][(pc = "dispatch" /\ pc' = "reindexed") =>
          /\ exc' = "none"
          /\ metadata_by_uuid' = metadata_by_uuid
          /\ metadata_by_name' = metadata_by_name
          /\ metadata_by_parent' = metadata_by_parent
          /\ metadata_by_name_and_parent' = metadata_by_name_and_parent]_vars

(***************************************************************************)
(* Devices on which one *.metadata file does not hold a JSON object.       *)
(***************************************************************************)
RawKinds == {"empty", "garbage", "truncated"}

\* three files r1, r2, r3 of pairwise distinct names at the top level, or
\* the first two of them; the file bad is of kind kind
MalformedDevices ==
    {[meta  |-> SubSeq(<<<<"r1", Record(n[1], RootParent, FALSE)>>,
                         <<"r2", Record(n[2], RootParent, FALSE)>>,
                         <<"r3", Record(n[3], RootParent, FALSE)>>>>, 1, len),
      files |-> <<>>,
      raw   |-> <<<<bad, kind>>>>] :
        n \in {<<nA, nX, nY>>, <<nX, nA, nY>>, <<nY, nX, nA>>, <<nB, nA, nX>>},
        len \in {2, 3}, bad \in {"r1", "r2"}, kind \in RawKinds}

InitMalformed ==
    \E dev \in MalformedDevices, doc \in {File(nX, "a/x.pdf"), File(nY, "a/y.epub")} :
        InitRun(Args("push", TRUE, FALSE, "skip", <<>>, <<doc>>, <<>>, FALSE),
                dev, EmptyLocal, TRUE)

NextMalformed == SshCheckOk \/ RetrieveMetadata \/ PushBuild \/ PushPrintTree \/ Finally

SpecMalformed == InitMalformed /\ [][NextMalformed]_vars

(***************************************************************************)
(* C12: when one record of the fetched snapshot is malformed JSON, the     *)
(* fetch raises nothing, the malformed record's uuid is not in the index,  *)
(* and every other visible record is indexed under its own uuid.           *)
(***************************************************************************)
C12_MalformedRecordIsSkipped ==
    (pc \notin {"start", "retrieve"} /\ Len(xochitl.raw) = 1) =>
        /\ exc = "none"
        /\ \A k \in 1..Len(xochitl.meta) :
              LET uuid == xochitl.meta[k][1]
                  md   == xochitl.meta[k][2]
              IN IF HasKey(xochitl.raw, uuid)
                 THEN ~HasKey(metadata_by_uuid, uuid)
                 ELSE \/ Invisible(md)
                      \/ HasKey(metadata_by_uuid, uuid) /\ get_metadata_by_uuid(uuid) = md

(***************************************************************************)
(* C13: when the process exits from a run that was given no --transfer-dir *)
(* the staging directory made at line 19 no longer exists and the ssh      *)
(* control connection has been terminated, whatever the path of the run.   *)
(***************************************************************************)
C13_StagingRemovedOnEveryExit ==
    (pc = "done" /\ ~args.custom_prepdir) =>
        /\ ~default_prepdir
        /\ ssh_connection = "terminated"

(***************************************************************************)
(* Pushes of files whose extension is written in either letter case.       *)
(***************************************************************************)
nYU == <<"y", ".", "EPUB">>

CaseEntries ==
    {File(nX, "a/x.pdf"), File(nXU, "a/x.PDF"), File(nY, "a/y.epub"),
     File(nYU, "a/y.EPUB"), Dir(nA, <<File(nXU, "A/x.PDF")>>)}

InitCase ==
    \E docs \in SeqsUpTo(CaseEntries, MaxDocs), dest \in {<<>>, <<nB>>} :
        InitRun(Args("push", FALSE, FALSE, "skip", dest, docs, <<>>, FALSE),
                [meta |-> <<>>, files |-> <<>>, raw |-> <<>>], EmptyLocal, TRUE)

NextCase ==
    \/ SshCheckOk \/ RetrieveMetadata
    \/ PushBuild \/ PushRender \/ PushTransfer \/ PushCleanup
    \/ Finally

SpecCase == InitCase /\ [][NextCase]_vars

(***************************************************************************)
(* C14: the metadata blob render stages for a node has type DocumentType   *)
(* and carries lastOpened and lastOpenedPage exactly when the node is a    *)
(* Document, and has type CollectionType without them exactly when it is a *)
(* Folder, whatever the letter case of the file's extension.               *)
(***************************************************************************)
RenderedNodes ==
    {i \in 1..Len(nodes) : [node |-> i, file |-> <<nodes[i].id, "metadata">>] \in writes}

C14_MetadataTypeFollowsNodeKind ==
    pc = "rendered" =>
        \A i \in RenderedNodes :
            LET md == Get(prepdir.meta, nodes[i].id) IN
            /\ nodes[i].kind = "Document" <=> (md.type = "DocumentType" /\ md.lastOpened)
            /\ nodes[i].kind = "Folder" <=> (md.type = "CollectionType" /\ ~md.lastOpened)

(***************************************************************************)
(* reclean.py: the same connection check and index as resync.py, then      *)
(* cleanup_deleted and cleanup_orphaned.  args has only the dry-run flag;  *)
(* out records the prompt, the answer typed and the commands sent.         *)
(***************************************************************************)
\* a payload file no *.metadata file belongs to
OrphanFiles == <<<<<<"r9", "pdf">>, "orphan bytes">>>>

InitReclean ==
    \E l \in Listings(AnyRecords("r2"), AnyRecords("r1")), dry \in BOOLEAN,
       files \in {<<>>, OrphanFiles} :
        InitRun([dryrun |-> dry], [meta |-> l, files |-> files, raw |-> <<>>],
                EmptyLocal, TRUE)

\* reclean.py line 188: retrieve_metadata, lines 64-91.  The name
\* FileCollision of line 89 is defined nowhere in reclean.py, so the raise
\* statement raises NameError.
RecleanRetrieveMetadata ==
    /\ pc = "retrieve"
    /\ LET ix == retrieve_metadata([by_uuid |-> metadata_by_uuid,
                                    by_name |-> metadata_by_name,
                                    by_parent |-> metadata_by_parent,
                                    by_name_and_parent |-> metadata_by_name_and_parent,
                                    raised |-> "none"], xochitl)
       IN /\ metadata_by_uuid' = ix.by_uuid
          /\ metadata_by_name' = ix.by_name
          /\ metadata_by_parent' = ix.by_parent
          /\ metadata_by_name_and_parent' = ix.by_name_and_parent
          /\ exc' = IF ix.raised = "FileCollision" THEN "NameError" ELSE ix.raised
          /\ pc' = IF ix.raised = "none" THEN "cleanup_deleted" ELSE "finally"
    /\ snapshot' = xochitl.meta
    /\ UNCHANGED <<ProcessVars, xochitl, ssh_connection, default_prepdir, prepdir,
                   nodes, root, gen, writes, out, localfs, pushed>>

\* lines 145-149: the uuids of the indexed records whose metadata is deleted
deleted_uuids == [k \in 1..Len(SelectSeq(metadata_by_uuid, LAMBDA e : e[2].deleted)) |->
                      SelectSeq(metadata_by_uuid, LAMBDA e : e[2].deleted)[k][1]]

\* lines 156-157: one ssh call per uuid, not run in a dry-run.  The command
\* is a plain string, not an f-string: it names the text {u}, not the uuid.
RmCommands(n) == [k \in 1..n |-> <<"rm -r", "{u}*">>]

\* cleanup_deleted, lines 141-159; decision is what the user types
cleanup_deleted(decision) ==
    IF Len(deleted_uuids) = 0
    THEN Append(out, <<"No deleted files found.", "">>)
    ELSE LET asked == out \o <<<<"Clean up deleted files? [Y/n]", ToString(Len(deleted_uuids))>>,
                                <<"input", decision>>>>
         IN IF decision \in {"", "y", "Y"} /\ ~args.dryrun
            THEN asked \o RmCommands(Len(deleted_uuids))
            ELSE asked

CleanupDeleted ==
    /\ pc = "cleanup_deleted"
    /\ \E decision \in {"", "y", "n"} : out' = cleanup_deleted(decision)
    /\ pc' = "cleanup_orphaned"
    /\ UNCHANGED <<ProcessVars, xochitl, ssh_connection, default_prepdir, prepdir,
                   IndexVars, nodes, root, gen, writes, exc, localfs, pushed>>

\* cleanup_orphaned, lines 168-172.  ${$(basename $f)%%.*} is a nested
\* substitution that only some shells accept: the loop either fails at its
\* first file or removes (in a dry-run: lists) the files without metadata.
CleanupOrphaned ==
    /\ pc = "cleanup_orphaned"
    /\ \E accepted \in BOOLEAN :
          xochitl' = IF accepted /\ ~args.dryrun
                     THEN [xochitl EXCEPT !.files =
                              SelectSeq(@, LAMBDA e : HasKey(xochitl.meta, e[1][1]))]
                     ELSE xochitl
    /\ out' = Append(out, <<"for f in $(ls -1 xochitl)",
                            IF args.dryrun THEN "echo rm" ELSE "rm">>)
    /\ pc' = "finally"
    /\ UNCHANGED <<ProcessVars, ssh_connection, default_prepdir, prepdir,
                   IndexVars, nodes, root, gen, writes, exc, localfs, pushed>>

NextReclean ==
    \/ SshCheckFail \/ SshCheckOk \/ RecleanRetrieveMetadata
    \/ CleanupDeleted \/ CleanupOrphaned
    \/ Finally

SpecReclean == InitReclean /\ [][NextReclean]_vars

(***************************************************************************)
(* C15: after retrieve_metadata, when the device holds records whose       *)
(* metadata has deleted = true, cleanup_deleted asks for confirmation of   *)
(* their number; when the answer confirms outside dry-run, one remove      *)
(* command is sent per such record, naming its uuid; in a dry-run no       *)
(* remove command is sent.                                                 *)
(***************************************************************************)
DeletedOnDevice == {r[1] : r \in {e \in Range(snapshot) : e[2].deleted}}

Sent(tag) == {k \in 1..Len(out) : out[k][1] = tag}

C15_CleanupRemovesDeletedRecords ==
    (pc \in {"cleanup_orphaned", "finally", "done"} /\ exc = "none"
        /\ DeletedOnDevice # {}) =>
        /\ \E k \in Sent("Clean up deleted files? [Y/n]") :
              out[k][2] = ToString(Cardinality(DeletedOnDevice))
        /\ \A k \in Sent("input") :
              IF out[k][2] \in {"", "y", "Y"} /\ ~args.dryrun
              THEN \A u \in DeletedOnDevice :
                      Cardinality({j \in Sent("rm -r") : out[j][2] = u \o "*"}) = 1
              ELSE Sent("rm -r") = {}

(***************************************************************************)
(* C16: when no two visible records of the snapshot share a name and a     *)
(* parent, no two visible records of the device share them after the       *)
(* staged files of the push were copied to it, whatever the policy and the *)
(* list of documents.                                                      *)
(***************************************************************************)
C16_PushKeepsNamesUnique ==
    (args.mode = "push" /\ pc \in {"cleanup", "finally", "done"}
        /\ IndexWasBuilt /\ ~VisibleCollision(snapshot)) =>
        ~VisibleCollision(xochitl.meta)

(***************************************************************************)
(* C17 as stated: in a push, when a child node is constructed and matched  *)
(* against the index its parent Folder's id is already fixed, the matched  *)
(* record's id or a generated one, and is the id the Folder has ever       *)
(* after.                                                                  *)
(***************************************************************************)
Children == {i \in 1..Len(nodes) : nodes[i].parent # 0}

TwoPushEntries ==
    {File(nX, "a/x.pdf"), File(nXU, "a/x.PDF"), File(nY, "a/y.epub"),
     Dir(nA, <<File(nX, "A/x.pdf"), File(nN, "A/n.txt")>>),
     Dir(nB, <<Dir(nA, <<File(nY, "B/A/y.epub")>>), File(nX, "B/x.pdf")>>)}

\* the lists of entries of pairwise distinct names
DistinctNames(S, n) ==
    {q \in SeqsUpTo(S, n) : \A i, j \in 1..Len(q) : i # j => q[i].name # q[j].name}

InitTwoPush ==
    \E docs \in DistinctNames(TwoPushEntries, MaxDocs), dest \in {<<>>, <<nA>>},
       excl \in {<<>>, <<<<"B", "/", "A">>>>},
       l \in Listings(VisibleRecords("r2"), VisibleRecords("r1")) :
        InitRun(Args("push", FALSE, FALSE, "skip", dest, docs, excl, FALSE),
                [meta |-> l, files |-> <<>>, raw |-> <<>>], EmptyLocal, TRUE)

\* the program is started again with the same command line; pushed keeps
\* the tree the first run ended with
StartSecondPush ==
    /\ pc = "done" /\ run = 1 /\ exc = "none"
    /\ run' = 2
    /\ pushed' = Append(pushed, [nodes |-> nodes, root |-> root])
    /\ pc' = "start"
    /\ ssh_connection' = "none"
    /\ default_prepdir' = TRUE
    /\ prepdir' = EmptyDir
    /\ metadata_by_uuid' = <<>>
    /\ metadata_by_name' = <<>>
    /\ metadata_by_parent' = <<>>
    /\ metadata_by_name_and_parent' = <<>>
    /\ snapshot' = <<>>
    /\ nodes' = <<>>
    /\ root' = <<>>
    /\ writes' = {}
    /\ out' = <<>>
    /\ UNCHANGED <<args, xochitl, web_enabled, gen, exc, localfs, localfs0>>

NextTwoPush ==
    \/ SshCheckOk \/ RetrieveMetadata
    \/ PushBuild \/ PushRender \/ PushTransfer \/ PushCleanup
    \/ Finally \/ StartSecondPush

SpecTwoPush == InitTwoPush /\ [][NextTwoPush]_vars

(***************************************************************************)
(* C18: when a local tree of pairwise distinct sibling names is pushed     *)
(* twice with policy skip to the same destination, the second run taking   *)
(* its snapshot after the first run's staged files were copied, the second *)
(* run raises nothing, every node of its tree exists under the id the node *)
(* had at the end of the first run, and it stages nothing.                 *)
(***************************************************************************)
C18_SecondSkipPushReusesEverything ==
    (run = 2 /\ pc \notin {"start", "retrieve"}) =>
        /\ exc = "none"
        /\ writes = {} /\ prepdir = EmptyDir
        /\ xochitl.meta = snapshot
        /\ \A i \in Attached :
              /\ nodes[i].exists
              /\ nodes[i].id # None
              /\ nodes[i].name = pushed[2].nodes[i].name
              /\ nodes[i].id = pushed[2].nodes[i].id

\* the second run ended with a tree in which a folder and a document under
\* it have the ids the first run generated
C18_Witness ==
    /\ run = 2 /\ pc = "done"
    /\ \E i \in Attached :
          /\ nodes[i].parent # 0
          /\ nodes[i].kind = "Document"
          /\ nodes[i].id \in GeneratedIds
          /\ ParentId(i) \in GeneratedIds

====
